---- MODULE Spec2Model ----
(***************************************************************************)
(* PyPkg TUI (src/packagemanager.py): the package list, the cursor, the    *)
(* pending actions and the apply transaction of PackageManagerTUI, with    *)
(* the in-memory ledger of PackageDatabase and the cache of Repository.    *)
(***************************************************************************)
EXTENDS Integers, Sequences, FiniteSets, TLC

(* ------------------------------ bounds --------------------------------- *)

\* number of distinct packages the repository index or the ledger may name
NumPkgs == 2

\* largest list height (terminal height - 5) a resize may produce
MaxListHeight == 2

\* cap on |current_index| and |scroll_offset| (both are unbounded in the code)
MaxCursor == 2

\* longest package list an index.json holds when every listing order and
\* repeated names are considered
MaxIndexLen == 3

(* --------------------------- program constants ------------------------- *)

\* rows a search jump keeps above the match: max(0, i - 5)
SearchMargin == 5

\* rows draw() reserves for header, details, status bar and footer
ReservedRows == 5

\* smallest terminal height on which draw() paints without a curses error
MinTermHeight == 3

\* the package of the built-in fallback index
SL == 1

(* ------------------------------- text ---------------------------------- *)

\* characters are code points: 1 = "A", 2 = "B", 3 = "a", 4 = "b"
Upper == {1, 2}

\* str.lower() on one character
Lower(c) == IF c \in Upper THEN c + 2 ELSE c

\* str.lower()
LowerStr(s) == [i \in 1..Len(s) |-> Lower(s[i])]

\* the `in` operator on strings: sub occurs in s as a contiguous substring
Contains(sub, s) ==
    \E k \in 0..(Len(s) - Len(sub)) : SubSeq(s, k + 1, k + Len(sub)) = sub

\* the < operator on strings: lexicographic by code point, a prefix is smaller
RECURSIVE StrLess(_, _)
StrLess(s, t) ==
    IF t = <<>> THEN FALSE
    ELSE IF s = <<>> THEN TRUE
    ELSE IF Head(s) # Head(t) THEN Head(s) < Head(t)
    ELSE StrLess(Tail(s), Tail(t))

\* Package.name of package n: "ab", "Aa", "b", "Ba", then "aa", "bb", "aaa", ...
NameText(n) ==
    CASE n = 1 -> <<3, 4>>
      [] n = 2 -> <<1, 3>>
      [] n = 3 -> <<4>>
      [] n = 4 -> <<2, 3>>
      [] OTHER -> [i \in 1..(n \div 2) |-> 3 + (n % 2)]

\* Package.description of package n: "BA", "", "aB", "b", then "A"
DescrText(n) ==
    CASE n = 1 -> <<2, 1>>
      [] n = 2 -> <<>>
      [] n = 3 -> <<3, 2>>
      [] n = 4 -> <<4>>
      [] OTHER -> <<1>>

\* what the user may type at the search prompt: "", "a", "B", "ba", "bb"
Queries == << <<>>, <<3>>, <<2>>, <<4, 3>>, <<4, 4>> >>

Names == 1..NumPkgs

\* terminal heights from MinTermHeight up, as list heights
ListHeights == (MinTermHeight - ReservedRows)..MaxListHeight

Max(a, b) == IF a > b THEN a ELSE b
Min(a, b) == IF a < b THEN a ELSE b

(* ------------------------------ state ---------------------------------- *)

VARIABLES
    db,              \* PackageDatabase.packages: names in the ledger
    package_cache,   \* Repository.package_cache: names, in insertion order
    packages,        \* PackageManagerTUI.packages
    current_index,
    scroll_offset,
    list_height,     \* getmaxyx()[0] - 5
    show_help,
    status_message,
    pc,              \* "getch" | "confirm" | "steps" | "reload" | "exited" | "crashed"
    to_install,      \* apply_changes: indices of the items to install
    to_remove,       \* apply_changes: indices of the items to remove
    step,            \* apply_changes: number of steps already attempted
    trace,           \* history: prompt and steps of apply_changes, while it is
                     \* the latest command
    pre_db,          \* history: db before the latest command, if an apply
    pre_packages     \* history: packages before the latest command, if an apply

vars == <<db, package_cache, packages, current_index, scroll_offset,
          list_height, show_help, status_message, pc, to_install, to_remove,
          step, trace, pre_db, pre_packages>>

cursor == <<current_index, scroll_offset>>
\* status_message values: the text, the numbers or names it shows, and the
\* str(e) of an error message
Msg(kind, args, cause) == <<kind, args, cause>>

(* --------------------------- catalog building -------------------------- *)

\* list.sort(key=name) as insertion of x into an already sorted list
RECURSIVE InsertByName(_, _)
InsertByName(x, sorted) ==
    IF sorted = <<>> THEN <<x>>
    ELSE IF StrLess(NameText(x.name), NameText(Head(sorted).name))
         THEN <<x>> \o sorted
         ELSE <<Head(sorted)>> \o InsertByName(x, Tail(sorted))

\* a list left in the order it was built in
Unsorted(items) == items

RECURSIVE SortByName(_)
SortByName(items) ==
    IF items = <<>> THEN <<>>
    ELSE InsertByName(Head(items), SortByName(Tail(items)))

\* PackageDatabase.is_installed
is_installed(ledger, name) == name \in ledger

\* PackageListItem(pkg, installed): the action defaults to NONE
PackageListItem(name, installed) ==
    [name |-> name, installed |-> installed, action |-> "NONE"]

\* the list load_packages builds from the repository's packages and the ledger
BuildPackages(available, ledger) ==
    SortByName([i \in 1..Len(available) |->
                   PackageListItem(available[i], is_installed(ledger, available[i]))])

\* the names of S in the order the index lists them: by package number, which
\* is not the order of the names
RECURSIVE Listing(_)
Listing(S) ==
    IF S = {} THEN <<>>
    ELSE LET first == CHOOSE x \in S : \A y \in S : x <= y
         IN  <<first>> \o Listing(S \ {first})

\* the package lists an index.json can hold
Indexes == {Listing(S) : S \in SUBSET Names}

\* Repository.fetch_package_list: the cache when it is non-empty, else what
\* the index holds, or the built-in package when the request fails
FetchResults(cache) ==
    IF cache # <<>> THEN {cache} ELSE Indexes \cup {<<SL>>}

\* draw_package_list indexes packages[i + scroll_offset] for i in
\* range(list_height) until the index reaches len(packages): an offset below
\* -len(packages) raises IndexError out of draw()
DrawRaises(pkgs, offset, height, help) ==
    ~help /\ height >= 1 /\ offset < 0 - Len(pkgs)

\* run(): draw() follows every handled key, then getch()
AfterDraw(pkgs, offset, height, help) ==
    IF DrawRaises(pkgs, offset, height, help) THEN "crashed" ELSE "getch"

\* the cap on the cursor values
InCap(idx, off) ==
    /\ idx \in (0 - MaxCursor)..MaxCursor
    /\ off \in (0 - MaxCursor)..MaxCursor

Init ==
    /\ db \in SUBSET Names
    /\ package_cache \in FetchResults(<<>>)
    /\ packages = BuildPackages(package_cache, db)
    /\ current_index = 0
    /\ scroll_offset = 0
    /\ list_height \in ListHeights
    /\ show_help = FALSE
    /\ status_message = Msg("Loaded", <<Len(packages)>>, "")
    /\ pc = "getch"
    /\ to_install = <<>>
    /\ to_remove = <<>>
    /\ step = 0
    /\ trace = <<>>
    /\ pre_db = db
    /\ pre_packages = packages

(* ------------------------------ handle_input --------------------------- *)

\* a command other than apply: the history of the previous command is dropped
Forget ==
    /\ trace' = <<>>
    /\ pre_db' = db'
    /\ pre_packages' = packages'
    /\ UNCHANGED <<to_install, to_remove, step>>

\* a key arrives in the main loop while the help screen is not shown
Ready == pc = "getch" /\ ~show_help

\* what a cursor key leaves alone
CursorFrame ==
    /\ UNCHANGED <<db, package_cache, packages, list_height, show_help,
                   status_message>>
    /\ Forget

\* the cursor after a cursor key: idx and off are the new values
MoveTo(idx, off) ==
    /\ InCap(idx, off)
    /\ current_index' = idx
    /\ scroll_offset' = off
    /\ pc' = AfterDraw(packages, off, list_height, FALSE)
    /\ CursorFrame

\* any key while the help screen is shown closes it
CloseHelp ==
    /\ pc = "getch" /\ show_help
    /\ show_help' = FALSE
    /\ pc' = AfterDraw(packages, scroll_offset, list_height, FALSE)
    /\ UNCHANGED <<db, package_cache, packages, cursor, list_height,
                   status_message>>
    /\ Forget

KeyQuit ==
    /\ Ready
    /\ pc' = "exited"
    /\ UNCHANGED <<db, package_cache, packages, cursor, list_height, show_help,
                   status_message>>
    /\ Forget

KeyHelp ==
    /\ Ready
    /\ show_help' = TRUE
    /\ pc' = "getch"
    /\ UNCHANGED <<db, package_cache, packages, cursor, list_height,
                   status_message>>
    /\ Forget

\* KEY_RESIZE: getmaxyx() reports the new height; the key closes the help
\* screen when it is shown and matches no other branch of handle_input
Resize ==
    /\ pc = "getch"
    /\ \E h \in ListHeights :
        /\ h # list_height
        /\ list_height' = h
        /\ pc' = AfterDraw(packages, scroll_offset, h, FALSE)
    /\ show_help' = FALSE
    /\ UNCHANGED <<db, package_cache, packages, cursor, status_message>>
    /\ Forget

KeyUpOffset(idx, off) == IF idx < off THEN idx ELSE off

KeyUp ==
    /\ Ready
    /\ IF current_index > 0
       THEN MoveTo(current_index - 1,
                   KeyUpOffset(current_index - 1, scroll_offset))
       ELSE MoveTo(current_index, scroll_offset)

\* a Down that never scrolls
KeyDownNoScroll(idx, off, height) == off

KeyDownOffset(idx, off, height) ==
    IF idx >= off + height THEN idx - height + 1 ELSE off

KeyDown ==
    /\ Ready
    /\ IF current_index < Len(packages) - 1
       THEN MoveTo(current_index + 1,
                   KeyDownOffset(current_index + 1, scroll_offset, list_height))
       ELSE MoveTo(current_index, scroll_offset)

PageUpIndex(idx, height) == Max(0, idx - height)
PageUpOffset(off, height) == Max(0, off - height)

KeyPageUp ==
    /\ Ready
    /\ MoveTo(PageUpIndex(current_index, list_height),
              PageUpOffset(scroll_offset, list_height))

PageDownIndex(idx, len, height) == Min(len - 1, idx + height)
PageDownOffset(off, len, height) == Min(len - height, off + height)

KeyPageDown ==
    /\ Ready
    /\ MoveTo(PageDownIndex(current_index, Len(packages), list_height),
              PageDownOffset(scroll_offset, Len(packages), list_height))

KeyHome ==
    /\ Ready
    /\ MoveTo(0, 0)

EndIndex(len) == len - 1
EndOffset(len, height) == Max(0, len - height)

KeyEnd ==
    /\ Ready
    /\ MoveTo(EndIndex(Len(packages)), EndOffset(Len(packages), list_height))

(* ------------------------------- marking ------------------------------- *)

\* the guard of mark_for_install, mark_for_remove and draw_package_details
ValidIndex(idx, pkgs) == 0 <= idx /\ idx < Len(pkgs)

\* the selected item (Python indexes from 0)
Selected == packages[current_index + 1]

\* item.action = a on the selected item
SetAction(pkgs, idx, a) == [pkgs EXCEPT ![idx + 1].action = a]

\* mark_for_install without its `if not item.installed`
MarkInstallUnchecked(pkgs, idx) == SetAction(pkgs, idx, "INSTALL")

\* a '+' that takes back a pending installation
MarkInstallToggling(pkgs, idx) ==
    IF pkgs[idx + 1].action = "INSTALL" THEN SetAction(pkgs, idx, "NONE")
    ELSE IF ~pkgs[idx + 1].installed THEN SetAction(pkgs, idx, "INSTALL")
    ELSE pkgs

\* mark_for_install: the list it leaves
MarkInstallPackages(pkgs, idx) ==
    IF ~pkgs[idx + 1].installed THEN SetAction(pkgs, idx, "INSTALL") ELSE pkgs

\* mark_for_install: the status it reports
MarkInstallStatus(pkgs, idx) ==
    IF ~pkgs[idx + 1].installed
    THEN Msg("Marked for installation", <<pkgs[idx + 1].name>>, "")
    ELSE Msg("is already installed", <<pkgs[idx + 1].name>>, "")

\* mark_for_remove without its `if item.installed`
MarkRemoveUnchecked(pkgs, idx) == SetAction(pkgs, idx, "REMOVE")

\* mark_for_remove: the list it leaves
MarkRemovePackages(pkgs, idx) ==
    IF pkgs[idx + 1].installed THEN SetAction(pkgs, idx, "REMOVE") ELSE pkgs

\* mark_for_remove: the status it reports
MarkRemoveStatus(pkgs, idx) ==
    IF pkgs[idx + 1].installed
    THEN Msg("Marked for removal", <<pkgs[idx + 1].name>>, "")
    ELSE Msg("is not installed", <<pkgs[idx + 1].name>>, "")

KeyPlus ==
    /\ Ready
    /\ IF ValidIndex(current_index, packages)
       THEN /\ packages' = MarkInstallPackages(packages, current_index)
            /\ status_message' = MarkInstallStatus(packages, current_index)
       ELSE UNCHANGED <<packages, status_message>>
    /\ pc' = AfterDraw(packages, scroll_offset, list_height, FALSE)
    /\ UNCHANGED <<db, package_cache, cursor, list_height, show_help>>
    /\ Forget

KeyMinus ==
    /\ Ready
    /\ IF ValidIndex(current_index, packages)
       THEN /\ packages' = MarkRemovePackages(packages, current_index)
            /\ status_message' = MarkRemoveStatus(packages, current_index)
       ELSE UNCHANGED <<packages, status_message>>
    /\ pc' = AfterDraw(packages, scroll_offset, list_height, FALSE)
    /\ UNCHANGED <<db, package_cache, cursor, list_height, show_help>>
    /\ Forget

(* ---------------------------- load and search -------------------------- *)

\* load_packages that keeps the list it already has
LoadKeepingList(result) ==
    /\ package_cache' = result
    /\ packages' = IF packages # <<>> THEN packages
                   ELSE BuildPackages(result, db')
    /\ status_message' = Msg("Loaded", <<Len(result)>>, "")

\* load_packages: fetch_package_list, rebuild the list, report its length
load_packages(result) ==
    /\ package_cache' = result
    /\ packages' = BuildPackages(result, db')
    /\ status_message' = Msg("Loaded", <<Len(result)>>, "")

KeyUpdate ==
    /\ Ready
    /\ db' = db
    /\ \E result \in FetchResults(package_cache) :
        /\ load_packages(result)
        /\ pc' = AfterDraw(BuildPackages(result, db), scroll_offset,
                           list_height, FALSE)
    /\ UNCHANGED <<cursor, list_height, show_help>>
    /\ Forget

\* the test of search_packages on one item
Matches(query, name) ==
    \/ Contains(LowerStr(query), LowerStr(NameText(name)))
    \/ Contains(LowerStr(query), LowerStr(DescrText(name)))

\* the indices (from 0) of the items the query matches
MatchingIndices(query, pkgs) ==
    {i \in 0..(Len(pkgs) - 1) : Matches(query, pkgs[i + 1].name)}

\* the last of the matching indices
LastMatch(query, pkgs) ==
    CHOOSE i \in MatchingIndices(query, pkgs) :
        \A j \in MatchingIndices(query, pkgs) : i >= j

\* the index at which the enumerate loop of search_packages returns
FirstMatch(query, pkgs) ==
    CHOOSE i \in MatchingIndices(query, pkgs) :
        \A j \in MatchingIndices(query, pkgs) : i <= j

\* the offset a search jump sets
JumpOffset(i) == Max(0, i - SearchMargin)

\* search_packages once the user has typed the query Queries[q]
SearchFor(q) ==
    IF Queries[q] = <<>>
    THEN /\ status_message' = Msg("Search cancelled", <<>>, "")
         /\ UNCHANGED cursor
    ELSE IF MatchingIndices(Queries[q], packages) = {}
    THEN /\ status_message' = Msg("No packages matching", <<q>>, "")
         /\ UNCHANGED cursor
    ELSE /\ current_index' = FirstMatch(Queries[q], packages)
         /\ scroll_offset' = JumpOffset(FirstMatch(Queries[q], packages))
         /\ status_message' =
                Msg("Found", <<packages[FirstMatch(Queries[q], packages) + 1].name>>, "")

KeySearch ==
    /\ Ready
    /\ \E q \in 1..Len(Queries) : SearchFor(q)
    /\ pc' = AfterDraw(packages, scroll_offset', list_height, FALSE)
    /\ UNCHANGED <<db, package_cache, packages, list_height, show_help>>
    /\ Forget

(* ----------------------------- apply_changes --------------------------- *)

\* [i for item in packages if item.action == a], as indices from 1
RECURSIVE WithAction(_, _, _)
WithAction(pkgs, a, from) ==
    IF from > Len(pkgs) THEN <<>>
    ELSE IF pkgs[from].action = a
         THEN <<from>> \o WithAction(pkgs, a, from + 1)
         ELSE WithAction(pkgs, a, from + 1)

\* a sequence back to front
RECURSIVE Reversed(_)
Reversed(seq) ==
    IF seq = <<>> THEN <<>> ELSE Append(Reversed(Tail(seq)), Head(seq))

\* to_install collected from the end of the list
ToInstallReversed(pkgs) == Reversed(WithAction(pkgs, "INSTALL", 1))

ToInstall(pkgs) == WithAction(pkgs, "INSTALL", 1)
ToRemove(pkgs) == WithAction(pkgs, "REMOVE", 1)

\* the early return taken when both lists are non-empty instead of empty
NothingToApplyInverted(inst, rem) == inst # <<>> /\ rem # <<>>

\* `if not to_install and not to_remove`
NothingToApply(inst, rem) == inst = <<>> /\ rem = <<>>

\* one event of an apply_changes call
Event(op, name, ok, ledger) ==
    [op |-> op, name |-> name, ok |-> ok, ledger |-> ledger]

KeyApply ==
    /\ Ready
    /\ step' = 0
    /\ trace' = <<>>
    /\ pre_db' = db
    /\ pre_packages' = packages
    /\ IF NothingToApply(ToInstall(packages), ToRemove(packages))
       THEN /\ status_message' = Msg("No changes to apply", <<>>, "")
            /\ pc' = AfterDraw(packages, scroll_offset, list_height, FALSE)
            /\ UNCHANGED <<to_install, to_remove>>
       ELSE /\ status_message' =
                   Msg("Apply?", <<Len(ToInstall(packages)),
                                   Len(ToRemove(packages))>>, "")
            /\ pc' = "confirm"
            /\ to_install' = ToInstall(packages)
            /\ to_remove' = ToRemove(packages)
    /\ UNCHANGED <<db, package_cache, packages, cursor, list_height, show_help>>

\* the keys the confirmation prompt may read
ConfirmKeys == {"y", "Y", "n", "other"}

\* a prompt that proceeds on every key but "n"
DeclinedOnlyByN(key) == key = "n"

\* `key != ord('y') and key != ord('Y')`
Declined(key) == key # "y" /\ key # "Y"

\* the pc after the confirmation prompt
AfterConfirm(key) ==
    IF Declined(key)
    THEN AfterDraw(packages, scroll_offset, list_height, FALSE)
    ELSE "steps"

Confirm ==
    /\ pc = "confirm"
    /\ \E key \in ConfirmKeys :
        /\ trace' = Append(trace, Event("confirm", 0, key \in {"y", "Y"}, FALSE))
        /\ pc' = AfterConfirm(key)
        /\ status_message' =
               IF Declined(key) THEN Msg("Changes cancelled", <<>>, "")
               ELSE status_message
        /\ to_install' = IF Declined(key) THEN <<>> ELSE to_install
        /\ to_remove' = IF Declined(key) THEN <<>> ELSE to_remove
    /\ UNCHANGED <<db, package_cache, packages, cursor, list_height, show_help,
                   step, pre_db, pre_packages>>

\* the pc after n of the planned steps
AfterStep(n, inst, rem) == IF n >= Len(inst) + Len(rem) THEN "reload" ELSE "steps"

\* a failure that escapes the `except Exception`, which catches every outcome of
\* the try block
PropagatesWhenFailed(o) == o # "ok"

\* whether outcome o of a try block leaves install_package or remove_package
\* as an exception
Propagates(o) == FALSE

\* PackageDatabase.add: the dictionary is updated before save() runs
DbAdd(ledger, name) == ledger \cup {name}

\* a removal that empties the ledger
DbRemoveAll(ledger, name) == {}

\* PackageDatabase.remove: the key is deleted before save() runs
DbRemove(ledger, name) == ledger \ {name}

\* self.repo.download_package(item.package): class Repository defines no
\* download_package, so the attribute lookup raises AttributeError
DownloadOutcomes == {"no attribute download_package"}

\* mkdir, tarfile.open and extractall: succeed or raise
ExtractOutcomes == {"ok", "extract failed"}

\* rmtree of the package directory: succeeds or raises
RmtreeOutcomes == {"ok", "rmtree failed"}

\* PackageDatabase.save: open or json.dump succeed or raise
SaveOutcomes == {"ok", "save failed"}

\* how the try block of install_package ends: "ok", or the first failure
InstallOutcome(download, extract, save) ==
    IF download # "ok" THEN download
    ELSE IF extract # "ok" THEN extract
    ELSE save

\* how the try block of remove_package ends
RemoveOutcome(rmtree, save) == IF rmtree # "ok" THEN rmtree ELSE save

\* whether install_package has reached db.add when it ends with outcome o
InstallReachesLedger(o) == o \in {"ok", "save failed"}

\* whether remove_package has reached db.remove when it ends with outcome o
RemoveReachesLedger(o) == o \in {"ok", "save failed"}

\* install_package: the item after the try block
InstalledItem(item, o) ==
    IF o = "ok" THEN [item EXCEPT !.installed = TRUE, !.action = "NONE"]
    ELSE item

\* remove_package: the item after the try block
RemovedItem(item, o) ==
    IF o = "ok" THEN [item EXCEPT !.installed = FALSE, !.action = "NONE"]
    ELSE item

install_package(i, o) ==
    /\ db' = IF InstallReachesLedger(o) THEN DbAdd(db, packages[i].name) ELSE db
    /\ packages' = [packages EXCEPT ![i] = InstalledItem(packages[i], o)]
    /\ status_message' =
           IF o = "ok"
           THEN Msg("Successfully installed", <<packages[i].name>>, "")
           ELSE Msg("Error installing", <<packages[i].name>>, o)
    /\ trace' = Append(trace, Event("install", packages[i].name, o = "ok",
                                    InstallReachesLedger(o)))

remove_package(i, o) ==
    /\ db' = IF RemoveReachesLedger(o) THEN DbRemove(db, packages[i].name) ELSE db
    /\ packages' = [packages EXCEPT ![i] = RemovedItem(packages[i], o)]
    /\ status_message' =
           IF o = "ok"
           THEN Msg("Successfully removed", <<packages[i].name>>, "")
           ELSE Msg("Error removing", <<packages[i].name>>, o)
    /\ trace' = Append(trace, Event("remove", packages[i].name, o = "ok",
                                    RemoveReachesLedger(o)))

\* `for item in to_install: self.install_package(item)`
StepInstall ==
    /\ pc = "steps"
    /\ step < Len(to_install)
    /\ \E d \in DownloadOutcomes, e \in ExtractOutcomes, s \in SaveOutcomes :
        /\ install_package(to_install[step + 1], InstallOutcome(d, e, s))
        /\ pc' = IF Propagates(InstallOutcome(d, e, s)) THEN "crashed"
                 ELSE AfterStep(step + 1, to_install, to_remove)
    /\ step' = step + 1
    /\ UNCHANGED <<package_cache, cursor, list_height, show_help, to_install,
                   to_remove, pre_db, pre_packages>>

\* `for item in to_remove: self.remove_package(item)`
StepRemove ==
    /\ pc = "steps"
    /\ step >= Len(to_install)
    /\ step < Len(to_install) + Len(to_remove)
    /\ \E r \in RmtreeOutcomes, s \in SaveOutcomes :
        /\ remove_package(to_remove[step - Len(to_install) + 1], RemoveOutcome(r, s))
        /\ pc' = IF Propagates(RemoveOutcome(r, s)) THEN "crashed"
                 ELSE AfterStep(step + 1, to_install, to_remove)
    /\ step' = step + 1
    /\ UNCHANGED <<package_cache, cursor, list_height, show_help, to_install,
                   to_remove, pre_db, pre_packages>>

\* apply_changes that returns without its final load_packages
ReturnWithoutReload ==
    /\ pc = "reload"
    /\ pc' = AfterDraw(packages, scroll_offset, list_height, FALSE)
    /\ to_install' = <<>>
    /\ to_remove' = <<>>
    /\ step' = 0
    /\ UNCHANGED <<db, package_cache, packages, status_message, cursor,
                   list_height, show_help, trace, pre_db, pre_packages>>

\* the load_packages call that ends apply_changes
Reload ==
    /\ pc = "reload"
    /\ db' = db
    /\ \E result \in FetchResults(package_cache) :
        /\ load_packages(result)
        /\ pc' = AfterDraw(BuildPackages(result, db), scroll_offset,
                           list_height, FALSE)
    /\ to_install' = <<>>
    /\ to_remove' = <<>>
    /\ step' = 0
    /\ UNCHANGED <<cursor, list_height, show_help, trace, pre_db, pre_packages>>

Next ==
    \/ CloseHelp
    \/ KeyQuit
    \/ KeyHelp
    \/ Resize
    \/ KeyUp
    \/ KeyDown
    \/ KeyPageUp
    \/ KeyPageDown
    \/ KeyHome
    \/ KeyEnd
    \/ KeyPlus
    \/ KeyMinus
    \/ KeyApply
    \/ Confirm
    \/ StepInstall
    \/ StepRemove
    \/ Reload
    \/ KeyUpdate
    \/ KeySearch

Spec == Init /\ [][Next]_vars

\* index = response.json(): any list of package entries, names may repeat
RawIndexes == UNION {[1..k -> Names] : k \in 0..MaxIndexLen}

\* the keys of package_cache after `self.package_cache[pkg.name] = pkg` for
\* each entry of the index: a dict keeps the order of first insertion
RECURSIVE DictKeys(_, _)
DictKeys(raw, seen) ==
    IF raw = <<>> THEN <<>>
    ELSE IF Head(raw) \in seen THEN DictKeys(Tail(raw), seen)
    ELSE <<Head(raw)>> \o DictKeys(Tail(raw), seen \cup {Head(raw)})

\* the program started on any index and any ledger
InitBuild ==
    /\ db \in SUBSET Names
    /\ package_cache \in {DictKeys(raw, {}) : raw \in RawIndexes}
    /\ packages = BuildPackages(package_cache, db)
    /\ current_index = 0
    /\ scroll_offset = 0
    /\ list_height = MaxListHeight
    /\ show_help = FALSE
    /\ status_message = Msg("Loaded", <<Len(packages)>>, "")
    /\ pc = "getch"
    /\ to_install = <<>>
    /\ to_remove = <<>>
    /\ step = 0
    /\ trace = <<>>
    /\ pre_db = db
    /\ pre_packages = packages

\* the commands that build the list or change what it is built from
NextBuild ==
    \/ KeyUp
    \/ KeyDown
    \/ KeyPlus
    \/ KeyMinus
    \/ KeyApply
    \/ Confirm
    \/ StepInstall
    \/ StepRemove
    \/ Reload
    \/ KeyUpdate

SpecBuild == InitBuild /\ [][NextBuild]_vars

\* the program on a terminal that shows at least one list row and is not
\* resized
InitTall == Init /\ list_height >= 1

NextTall ==
    \/ CloseHelp
    \/ KeyQuit
    \/ KeyHelp
    \/ KeyUp
    \/ KeyDown
    \/ KeyPageUp
    \/ KeyPageDown
    \/ KeyHome
    \/ KeyEnd
    \/ KeyPlus
    \/ KeyMinus
    \/ KeyApply
    \/ Confirm
    \/ StepInstall
    \/ StepRemove
    \/ Reload
    \/ KeyUpdate
    \/ KeySearch

SpecTall == InitTall /\ [][NextTall]_vars

TypeOK ==
    /\ db \subseteq Names
    /\ pc \in {"getch", "confirm", "steps", "reload", "exited", "crashed"}
    /\ show_help \in BOOLEAN
    /\ list_height \in ListHeights

(* ------------------------------ properties ----------------------------- *)

\* the program is running: draw() has not raised
Running == pc # "crashed"

\* control is back in the main loop after an apply_changes that prompted
Returned == pc = "getch" /\ trace # <<>>

\* ... and the user confirmed
ReturnedConfirmed == Returned /\ trace[1].ok

\* ... and the user declined
ReturnedDeclined == Returned /\ ~trace[1].ok

\* the positions of the install and remove steps in the trace
StepsOf(tr) == {k \in 1..Len(tr) : tr[k].op \in {"install", "remove"}}

\* the item named name in the list pkgs
ItemsNamed(pkgs, name) == {i \in 1..Len(pkgs) : pkgs[i].name = name}

\* C1: after every transition, while the program runs,
\* 0 <= scrollOffset <= max(0, length - viewportHeight).
C1_ScrollOffsetInRange ==
    Running =>
        /\ 0 <= scroll_offset
        /\ scroll_offset <= Max(0, Len(packages) - list_height)

\* C2: whenever the catalog is non-empty, 0 <= selectedIndex < length after
\* every transition of cursor, mark, apply and refresh commands.
C2_SelectedIndexInRange ==
    (Running /\ packages # <<>>) =>
        (0 <= current_index /\ current_index < Len(packages))

\* C3: in every reachable state, the steps of a running transaction included,
\* an entry pending Install is not installed and an entry pending Remove or
\* Purge is installed.
C3_PendingMatchesInstalled ==
    \A i \in 1..Len(packages) :
        /\ packages[i].action = "INSTALL" => ~packages[i].installed
        /\ packages[i].action \in {"REMOVE", "PURGE"} => packages[i].installed

\* C3 witness: a transaction is between two steps: the install step of one
\* entry has failed, and another entry is still pending removal.
C3_Witness ==
    /\ pc = "steps"
    /\ step = 1
    /\ trace[2].op = "install"
    /\ \E i \in 1..Len(packages) :
        /\ packages[i].name = trace[2].name
        /\ packages[i].action = "INSTALL"
        /\ ~packages[i].installed
    /\ \E j \in 1..Len(packages) :
        packages[j].action = "REMOVE" /\ packages[j].installed

\* C4: '+' on an installed entry changes no pending action and reports
\* "is already installed"; '-' on an entry that is not installed changes no
\* pending action and reports "is not installed".
C4_RejectedMarkKeepsAction ==
    [][/\ (KeyPlus /\ ValidIndex(current_index, packages) /\ Selected.installed)
          => /\ packages' = packages
             /\ status_message' = Msg("is already installed", <<Selected.name>>, "")
       /\ (KeyMinus /\ ValidIndex(current_index, packages) /\ ~Selected.installed)
          => /\ packages' = packages
             /\ status_message' = Msg("is not installed", <<Selected.name>>, "")
      ]_vars

\* C4 witness: '+' has been rejected on an installed entry that is pending
\* removal, and the entry is still pending removal.
C4_Witness ==
    /\ pc = "getch"
    /\ ValidIndex(current_index, packages)
    /\ Selected.installed
    /\ Selected.action = "REMOVE"
    /\ status_message = Msg("is already installed", <<Selected.name>>, "")

\* C5: when no entry had a pending action as apply_changes started, there is
\* no confirmation prompt, no step runs, and the ledger is not touched.
C5_EmptyPlanNeverPrompts ==
    (\A i \in 1..Len(pre_packages) : pre_packages[i].action = "NONE") =>
        /\ pc \notin {"confirm", "steps", "reload"}
        /\ trace = <<>>
        /\ db = pre_db

\* C5 witness: apply_changes has returned "No changes to apply".
C5_Witness ==
    /\ pc = "getch"
    /\ status_message = Msg("No changes to apply", <<>>, "")
    /\ \A i \in 1..Len(packages) : packages[i].action = "NONE"
    /\ packages # <<>>

\* C6: past the prompt of a non-empty plan the confirmation has been asked
\* exactly once; when it was declined nothing else ran, and the ledger and
\* every entry's installed flag and pending action are as before the command.
C6_DeclineHasNoEffect ==
    /\ (pc \in {"steps", "reload"} \/ trace # <<>>) =>
           /\ trace[1].op = "confirm"
           /\ StepsOf(trace) = 2..Len(trace)
    /\ (trace # <<>> /\ ~trace[1].ok) =>
           /\ Len(trace) = 1
           /\ pc \in {"getch", "crashed"}
           /\ db = pre_db
           /\ packages = pre_packages
           /\ status_message = Msg("Changes cancelled", <<>>, "")

\* C6 witness: a plan with a pending install and a pending removal was declined.
C6_Witness ==
    /\ ReturnedDeclined
    /\ \E i, j \in 1..Len(packages) :
        packages[i].action = "INSTALL" /\ packages[j].action = "REMOVE"

\* the steps a confirmed plan of the list pkgs consists of, in plan order
PlannedSteps(pkgs) ==
    [k \in 1..Len(ToInstall(pkgs)) |-> <<"install", pkgs[ToInstall(pkgs)[k]].name>>]
    \o [k \in 1..Len(ToRemove(pkgs)) |-> <<"remove", pkgs[ToRemove(pkgs)[k]].name>>]

\* the steps a trace records
AttemptedSteps(tr) == [k \in 1..(Len(tr) - 1) |-> <<tr[k + 1].op, tr[k + 1].name>>]

\* C7: when control returns from a confirmed apply_changes, every planned
\* entry has been attempted exactly once, whichever steps failed; no failure
\* ends the program.
C7_EveryStepAttempted ==
    /\ (trace # <<>> /\ trace[1].ok /\ pc \in {"getch", "crashed", "exited"}) =>
           AttemptedSteps(trace) = PlannedSteps(pre_packages)
    /\ (trace # <<>> /\ trace[1].ok) => pc # "crashed"

\* C7 witness: the first of two steps failed and the second was attempted.
C7_Witness ==
    /\ ReturnedConfirmed
    /\ Len(trace) = 3
    /\ ~trace[2].ok

\* C8: in the trace of a transaction no install step follows a remove step,
\* and two steps of the same kind run in ascending order of package name.
C8_InstallsFirstInNameOrder ==
    \A j, k \in StepsOf(trace) :
        j < k =>
            /\ trace[j].op = "remove" => trace[k].op = "remove"
            /\ trace[j].op = trace[k].op =>
                   StrLess(NameText(trace[j].name), NameText(trace[k].name))

\* C8 witness: an install step ran before the remove step of a package whose
\* name sorts first.
C8_Witness ==
    /\ ReturnedConfirmed
    /\ Len(trace) = 3
    /\ trace[2].op = "install"
    /\ trace[3].op = "remove"
    /\ StrLess(NameText(trace[3].name), NameText(trace[2].name))

\* C9: after a confirmed transaction, the entry of every failed step has the
\* installed flag it had before the transaction and no pending action.
C9_FailedStepKeepsInstalled ==
    ReturnedConfirmed =>
        \A k \in StepsOf(trace) :
            ~trace[k].ok =>
                \A i \in ItemsNamed(packages, trace[k].name) :
                    /\ packages[i].action = "NONE"
                    /\ \A j \in ItemsNamed(pre_packages, trace[k].name) :
                           packages[i].installed = pre_packages[j].installed

\* C10: after a confirmed transaction the status reported to the caller
\* names every failed step and its cause.
C10_FailuresReported ==
    ReturnedConfirmed =>
        \A k \in StepsOf(trace) :
            ~trace[k].ok =>
                /\ status_message[1] \in {"Error installing", "Error removing"}
                /\ status_message[2] = <<trace[k].name>>

\* the causes with which the fetch, the extraction or the ledger save of an
\* install step can fail
InstallFailures == {"download failed", "extract failed", "save failed"}

\* C11: an install step of a confirmed transaction whose fetch, extraction and
\* ledger save did not fail has added the package to the ledger exactly once
\* and left the entry installed with no pending action.
C11_InstallAddsToLedger ==
    (/\ pc \in {"steps", "reload"}
     /\ step >= 1
     /\ Len(trace) = step + 1
     /\ trace[step + 1].op = "install"
     /\ status_message[3] \notin InstallFailures) =>
        /\ trace[step + 1].ok
        /\ trace[step + 1].name \in db
        /\ Cardinality({k \in StepsOf(trace) :
               /\ trace[k].op = "install"
               /\ trace[k].name = trace[step + 1].name
               /\ trace[k].ledger}) = 1
        /\ \A i \in ItemsNamed(packages, trace[step + 1].name) :
               packages[i].installed /\ packages[i].action = "NONE"

\* C12: after every load_packages, the refresh key's or the one that ends a
\* confirmed transaction, every entry has no pending action.
C12_LoadClearsPending ==
    [][(KeyUpdate \/ Reload) =>
           \A i \in 1..Len(packages') : packages'[i].action = "NONE"]_vars

\* C12 witness: the rebuild that ends a confirmed transaction has cleared the
\* pending action that a failed step had left on its entry.
C12_Witness ==
    /\ ReturnedConfirmed
    /\ status_message[1] = "Loaded"
    /\ \E k \in StepsOf(trace) : ~trace[k].ok
    /\ \E i \in 1..Len(pre_packages) : pre_packages[i].action # "NONE"
    /\ \A i \in 1..Len(packages) : packages[i].action = "NONE"

\* C13: whenever the program waits for a key, every entry's installed flag
\* equals the membership of its name in the ledger.
C13_InstalledIsLedgerMembership ==
    pc \in {"getch", "confirm"} =>
        \A i \in 1..Len(packages) :
            packages[i].installed = (packages[i].name \in db)

\* C13 witness: a confirmed transaction has returned in which a remove step
\* failed after changing the ledger.
C13_Witness ==
    /\ ReturnedConfirmed
    /\ \E k \in StepsOf(trace) :
        /\ trace[k].op = "remove"
        /\ ~trace[k].ok
        /\ trace[k].ledger
        /\ trace[k].name \notin db

\* C14: the entries of the list are strictly ascending by name, whatever
\* index and ledger it was built from.
C14_StrictlySortedByName ==
    \A i, j \in 1..Len(packages) :
        i < j => StrLess(NameText(packages[i].name), NameText(packages[j].name))

\* C14 witness: a list of two entries rebuilt, after a confirmed transaction,
\* from an index that lists them in the other order.
C14_Witness ==
    /\ ReturnedConfirmed
    /\ Len(packages) >= 2
    /\ package_cache[1] # packages[1].name

\* the names offered by the source
Offered == {package_cache[i] : i \in 1..Len(package_cache)}

\* C15: when the program waits for a command, every name that the source
\* offers or the ledger holds has exactly one entry in the list, and the
\* entry of a name held by the ledger is shown as installed.
C15_ListCoversSourceAndLedger ==
    pc = "getch" =>
        \A n \in Offered \cup db :
            /\ Cardinality(ItemsNamed(packages, n)) = 1
            /\ n \in db => \A i \in ItemsNamed(packages, n) : packages[i].installed

\* the place of index i in the cyclic order that starts just after cur
CyclicRank(i, cur, n) == (i - cur - 1) % n

\* the first match in the cyclic order that starts just after cur
CyclicFirst(query, pkgs, cur) ==
    CHOOSE i \in MatchingIndices(query, pkgs) :
        \A j \in MatchingIndices(query, pkgs) :
            CyclicRank(i, cur, Len(pkgs)) <= CyclicRank(j, cur, Len(pkgs))

\* C16, as stated: a search with a non-empty query selects the first match in
\* the cyclic order that starts just after the current selection, and finds
\* nothing only if no entry matches.
C16_SearchIsCyclicFromSelection ==
    [][\A q \in 1..Len(Queries) :
          (/\ KeySearch
           /\ SearchFor(q)
           /\ Queries[q] # <<>>
           /\ ValidIndex(current_index, packages)) =>
              IF MatchingIndices(Queries[q], packages) = {}
              THEN status_message'[1] = "No packages matching"
              ELSE /\ status_message'[1] = "Found"
                   /\ current_index' = CyclicFirst(Queries[q], packages, current_index)]_vars

\* C16, amended: a search with a non-empty query selects the first entry in
\* list order from index 0, wherever the selection was, whose name or
\* description contains the query case-insensitively; it reports no match,
\* and leaves the cursor alone, only if no entry matches.
C16_SearchIsFirstFromTop ==
    [][\A q \in 1..Len(Queries) :
          (KeySearch /\ SearchFor(q) /\ Queries[q] # <<>>) =>
              IF \A i \in 1..Len(packages) : ~Matches(Queries[q], packages[i].name)
              THEN /\ status_message'[1] = "No packages matching"
                   /\ UNCHANGED cursor
              ELSE /\ status_message'[1] = "Found"
                   /\ ValidIndex(current_index', packages)
                   /\ Matches(Queries[q], packages[current_index' + 1].name)
                   /\ \A j \in 1..current_index' :
                          ~Matches(Queries[q], packages[j].name)]_vars

\* C16 witness: a search has just selected the second entry of the list,
\* after passing over a first entry that does not match.
C16_Witness ==
    /\ pc = "getch"
    /\ status_message[1] = "Found"
    /\ current_index = 1
    /\ packages[2].name = status_message[2][1]
    /\ \E q \in 1..Len(Queries) :
           /\ Matches(Queries[q], packages[2].name)
           /\ ~Matches(Queries[q], packages[1].name)

\* C17: after a search that found an entry, on a list area of at least one
\* row, the selected index is inside the visible window and the offset is
\* within [0, max(0, length - list_height)].
C17_JumpKeepsSelectionVisible ==
    [][(KeySearch /\ status_message'[1] = "Found" /\ list_height >= 1) =>
          /\ scroll_offset' <= current_index'
          /\ current_index' < scroll_offset' + list_height
          /\ 0 <= scroll_offset'
          /\ scroll_offset' <= Max(0, Len(packages) - list_height)]_vars

\* the steps of a confirmed transaction, and the rebuild of the list
TransactionOrRebuild == StepInstall \/ StepRemove \/ Reload \/ KeyUpdate

\* C18: a pending INSTALL or REMOVE of an entry is cleared only by a step of a
\* confirmed transaction or by a rebuild of the list; every other command
\* (navigation, search, marks, help, resize, a declined apply) leaves it as it
\* is, and no command at all turns INSTALL into REMOVE or REMOVE into INSTALL.
C18_PendingClearedOnlyByTransaction ==
    [][\A i \in 1..Len(packages) :
          packages[i].action # "NONE" =>
              /\ ~TransactionOrRebuild =>
                     /\ ItemsNamed(packages', packages[i].name) # {}
                     /\ \A j \in ItemsNamed(packages', packages[i].name) :
                            packages'[j].action = packages[i].action
              /\ \A j \in ItemsNamed(packages', packages[i].name) :
                     packages'[j].action \in {packages[i].action, "NONE"}]_vars

\* C18 witness: '-' was pressed on an entry whose installation is pending, and
\* the entry is still marked for installation.
C18_Witness ==
    /\ pc = "getch"
    /\ ValidIndex(current_index, packages)
    /\ Selected.action = "INSTALL"
    /\ status_message = Msg("is not installed", <<Selected.name>>, "")

\* every entry named in S shows the same installed flag before and after
FlagsKept(S) ==
    \A n \in S :
        \A i \in ItemsNamed(packages, n), j \in ItemsNamed(packages', n) :
            packages'[j].installed = packages[i].installed

\* the names a trace records a step for
StepNames(tr) == {tr[k].name : k \in StepsOf(tr)}

\* C19: outside a confirmed transaction (navigation, search, marks, refresh,
\* help, the prompt and a declined apply) the ledger and every installed flag
\* stay as they are; a step of a transaction changes the ledger and the flags
\* for the name it acts on only, and the reload that ends the transaction
\* changes no flag but those of the names the transaction had a step for.
C19_InstalledChangesOnlyInTransaction ==
    [][/\ ~(StepInstall \/ StepRemove \/ Reload) =>
              db' = db /\ FlagsKept(Names)
       /\ (StepInstall \/ StepRemove) =>
              /\ db' \ {trace'[Len(trace')].name} = db \ {trace'[Len(trace')].name}
              /\ FlagsKept(Names \ {trace'[Len(trace')].name})
       /\ Reload =>
              db' = db /\ FlagsKept(Names \ StepNames(trace))]_vars

\* C19 witness: a confirmed transaction removed one package and returned,
\* while another package, for which it had no step, is still installed.
C19_Witness ==
    /\ ReturnedConfirmed
    /\ \E k \in StepsOf(trace) :
           /\ trace[k].op = "remove"
           /\ trace[k].ok
           /\ trace[k].name \notin db
    /\ \E i \in 1..Len(packages) :
           /\ packages[i].name \notin StepNames(trace)
           /\ packages[i].installed
           /\ packages[i].name \in db

\* C20: whenever the list is empty and the program waits for a command, the
\* selected index is -1 and the offset 0, from the start on; and a refresh
\* that makes an empty list non-empty leaves the index inside the list and
\* the offset within [0, max(0, length - list_height)].
C20_EmptyListCursor ==
    /\ []((pc = "getch" /\ packages = <<>>) =>
              (current_index = -1 /\ scroll_offset = 0))
    /\ [][(KeyUpdate /\ packages = <<>> /\ packages' # <<>>) =>
              /\ ValidIndex(current_index', packages')
              /\ 0 <= scroll_offset'
              /\ scroll_offset' <= Max(0, Len(packages') - list_height)]_vars

\* the six cursor commands
CursorKey == KeyUp \/ KeyDown \/ KeyPageUp \/ KeyPageDown \/ KeyHome \/ KeyEnd

\* the row of the selected entry is one of the rows draw_package_list draws
SelectionVisible ==
    /\ scroll_offset <= current_index
    /\ current_index < scroll_offset + list_height

\* C21: on a non-empty list and a list area of at least one row, the selected
\* entry is inside the visible window when the program starts, and each of
\* Up, Down, PageUp, PageDown, Home and End leaves it inside the window; so it
\* is inside the window after every sequence of these commands.
C21_CursorKeysKeepSelectionVisible ==
    /\ (packages # <<>> /\ list_height >= 1) => SelectionVisible
    /\ [][(/\ CursorKey
           /\ packages # <<>>
           /\ list_height >= 1
           /\ SelectionVisible) => SelectionVisible']_vars

\* C21 witness: on a list of two entries and a list area of one row, cursor
\* keys have moved the selection to the second entry and the window with it.
C21_Witness ==
    /\ pc = "getch"
    /\ Len(packages) = 2
    /\ list_height = 1
    /\ current_index = 1
    /\ scroll_offset = 1

====
